---- MODULE Spec2Model ----
(***************************************************************************)
(* py-fit-export: appending workout metrics extracted from FIT activity    *)
(* files to an existing Excel table (FitToExcelExporter).                  *)
(*                                                                         *)
(* Representation of Python / openpyxl values:                             *)
(*   - a Python value is a record tagged by its type in field t;           *)
(*   - a str is a sequence of lexical tokens (literal pieces and A1-style  *)
(*     cell references), the unit on which startswith("=") and openpyxl's  *)
(*     Translator operate;                                                 *)
(*   - a dict is a function from keys to values;                           *)
(*   - a StyleArray object lives in a heap (a sequence indexed by object   *)
(*     identity); a cell's _style is an index into that heap;              *)
(*   - a table ref "A2:C4" is kept as its lexical pieces: the two column   *)
(*     letter groups (letters as 1..26) and the two row numbers.           *)
(***************************************************************************)
EXTENDS Integers, Sequences, FiniteSets, TLC

(***************************************************************************)
(* Bounds of the model.                                                    *)
(***************************************************************************)
\* Largest number of successful direct append_table_values calls.
MaxAppends == 2
\* Largest number of activity paths in one batch call.
MaxBatch == 2
\* Largest number of entries in a filter_map.
MaxFilterLen == 2
\* Largest day number of a timestamp handed to excel_safe_datetime.
MaxDay == 2

(***************************************************************************)
(* Python values.                                                          *)
(***************************************************************************)
None == [t |-> "NoneType"]
Num(n) == [t |-> "int", n |-> n]
Lit(s) == [k |-> "lit", s |-> s]
\* A cell reference token: ca / ra say whether the column / the row carries "$".
Ref(ca, col, ra, row) == [k |-> "ref", ca |-> ca, col |-> col, ra |-> ra, row |-> row]
Str(toks) == [t |-> "str", toks |-> toks]
Text(s) == Str(<<Lit(s)>>)
\* datetime.datetime: day number d, hour h; aware with UTC offset off (hours).
DateTime(d, h, aware, off) ==
    [t |-> "datetime", d |-> d, h |-> h, aware |-> aware, off |-> off]
\* datetime.time: hour h; aware with UTC offset off (hours).
TimeOfDay(h, aware, off) == [t |-> "time", h |-> h, aware |-> aware, off |-> off]

\* str.startswith("=")
StartsWithEq(v) ==
    /\ Len(v.toks) > 0
    /\ v.toks[1].k = "lit"
    /\ v.toks[1].s = "="

(***************************************************************************)
(* utils.py                                                                *)
(***************************************************************************)
\* CET = timezone(timedelta(hours=1))
CET == 1

\* replace(tzinfo=None) without astimezone(CET): the clock reading is kept.
excel_safe_datetime_strip(v) ==
    IF v.t \in {"datetime", "time"} /\ v.aware
    THEN [v EXCEPT !.aware = FALSE, !.off = 0]
    ELSE v
excel_safe_datetime(v) ==
    IF v.t = "datetime" /\ v.aware
    THEN LET abs == v.d * 24 + v.h - v.off + CET
         IN DateTime(abs \div 24, abs % 24, FALSE, 0)
    ELSE IF v.t = "time" /\ v.aware
    THEN TimeOfDay(v.h, FALSE, 0)
    ELSE v

\* openpyxl.utils.get_column_letter: bijective base 26, A = 1 .. Z = 26.
RECURSIVE get_column_letter(_)
get_column_letter(n) ==
    IF n <= 0 THEN <<>>
    ELSE LET rem == ((n - 1) % 26) + 1
         IN get_column_letter((n - rem) \div 26) \o <<rem>>

\* openpyxl.utils.column_index_from_string
RECURSIVE column_index_from_string(_)
column_index_from_string(letters) ==
    IF letters = <<>> THEN 0
    ELSE column_index_from_string(SubSeq(letters, 1, Len(letters) - 1)) * 26
         + letters[Len(letters)]

make_ref(min_col, min_row, max_col, max_row) ==
    [c1 |-> get_column_letter(min_col), r1 |-> min_row,
     c2 |-> get_column_letter(max_col), r2 |-> max_row]

\* openpyxl.utils.range_boundaries: (min_col, min_row, max_col, max_row)
range_boundaries(ref) ==
    [min_col |-> column_index_from_string(ref.c1), min_row |-> ref.r1,
     max_col |-> column_index_from_string(ref.c2), max_row |-> ref.r2]

(***************************************************************************)
(* openpyxl.formula.translate.Translator                                   *)
(***************************************************************************)
\* Cell.coordinate: column letters followed by the row number.
Coordinate(row, col) == [col |-> get_column_letter(col), row |-> row]

\* Translator.translate_row / translate_col applied to one reference token:
\* a part prefixed by "$" is kept, any other part is moved by the delta.
translate_range_textual(tok, row_delta, col_delta) ==
    Ref(tok.ca,
        IF tok.ca THEN tok.col
        ELSE get_column_letter(column_index_from_string(tok.col) + col_delta),
        tok.ra,
        tok.row + row_delta)
translate_range(tok, row_delta, col_delta) ==
    Ref(tok.ca,
        IF tok.ca THEN tok.col
        ELSE get_column_letter(column_index_from_string(tok.col) + col_delta),
        tok.ra,
        IF tok.ra THEN tok.row ELSE tok.row + row_delta)

\* Translator(formula, origin).translate_formula(dest)
translate_formula(formula, origin, dest) ==
    LET row_delta == dest.row - origin.row
        col_delta == column_index_from_string(dest.col)
                     - column_index_from_string(origin.col)
    IN IF ~StartsWithEq(formula) THEN formula
       ELSE Str([i \in 1..Len(formula.toks) |->
                   IF formula.toks[i].k = "ref"
                   THEN translate_range(formula.toks[i], row_delta, col_delta)
                   ELSE formula.toks[i]])

(***************************************************************************)
(* Persisted documents (the .xlsx file) the exporter is run against.       *)
(***************************************************************************)
\* Header order of the target table (table.tableColumns).
Headers == <<"Date", "Name", "Pace">>
SheetName == "Running sessions"
TableName == "tblRun"
\* The fill-down formula of the Pace column in data row r of a table whose
\* first column is c and whose header is in row hr:
\*   =<Date>r*$<Name>$hr+<Name>$hr+$<Date>r
PaceFormula(c, hr, r) ==
    Str(<<Lit("="),
          Ref(FALSE, get_column_letter(c), FALSE, r), Lit("*"),
          Ref(TRUE, get_column_letter(c + 1), TRUE, hr), Lit("+"),
          Ref(FALSE, get_column_letter(c + 1), TRUE, hr), Lit("+"),
          Ref(TRUE, get_column_letter(c), FALSE, r)>>)

\* One document: a sheet of the given number of rows holding title rows, the
\* table (header in row headerRow and, if
\* hasData, one data row), the row below the table and one column to the
\* right of the table.  Styles are stored by value (0 = no style).
\*   paceKind  what the Pace cell of the data row holds
\*   blocked   which cell of the row below the table already holds a value
\*   prestyled whether the empty cells below the table are formatted
Document(minCol, headerRow, rows, totals, hasData, paceKind, blocked, prestyled) ==
    LET maxRow == IF hasData THEN headerRow + 1 ELSE headerRow
        maxCol == minCol + Len(Headers) - 1
        value(r, c) ==
            IF r < headerRow THEN (IF c = minCol THEN Text("Log") ELSE None)
            ELSE IF c > maxCol
            THEN (IF r = maxRow + 1 THEN Text("note") ELSE None)
            ELSE IF r = headerRow THEN Text(Headers[c - minCol + 1])
            ELSE IF hasData /\ r = maxRow
            THEN (CASE c = minCol -> DateTime(10, 8, FALSE, 0)
                    [] c = minCol + 1 -> Text("Easy")
                    [] OTHER -> (CASE paceKind = "formula" -> PaceFormula(minCol, headerRow, r)
                                   [] paceKind = "text" -> Text("n/a")
                                   [] OTHER -> Num(5)))
            ELSE IF r = maxRow + 1
            THEN (CASE blocked = "first" /\ c = minCol -> Num(99)
                    [] blocked = "last" /\ c = maxCol -> Text("x")
                    [] OTHER -> None)
            ELSE None
        style(r, c) ==
            IF c > maxCol \/ r < headerRow THEN 0
            ELSE IF r = headerRow THEN 1
            ELSE IF hasData /\ r = maxRow
            THEN (CASE c = minCol -> 2 [] c = maxCol -> 3 [] OTHER -> 0)
            ELSE IF prestyled THEN 4
            ELSE 0
    IN [sheet |-> SheetName, rows |-> rows, c0 |-> minCol, c1 |-> maxCol + 1,
        cells |-> [rc \in (1..rows) \X (minCol..(maxCol + 1)) |->
                     [value |-> value(rc[1], rc[2]), style |-> style(rc[1], rc[2])]],
        heights |-> [r \in 1..rows |->
                       IF r = headerRow THEN 20
                       ELSE IF hasData /\ r = maxRow THEN 30 ELSE 0],
        table |-> [name |-> TableName,
                   ref |-> make_ref(minCol, headerRow, maxCol, maxRow),
                   tableColumns |-> Headers,
                   totalsRowShown |-> totals]]

(***************************************************************************)
(* The workbook in memory.                                                 *)
(***************************************************************************)
\* openpyxl.load_workbook: every cell gets a StyleArray object of its own;
\* objects are allocated in row-major order.
load_workbook(doc) ==
    LET width == doc.c1 - doc.c0 + 1
        id(r, c) == (r - 1) * width + (c - doc.c0) + 1
    IN [sheet |-> doc.sheet, rows |-> doc.rows, c0 |-> doc.c0, c1 |-> doc.c1,
        cells |-> [rc \in DOMAIN doc.cells |->
                     [value |-> doc.cells[rc].value, style |-> id(rc[1], rc[2])]],
        heap |-> [i \in 1..(doc.rows * width) |->
                    doc.cells[<<((i - 1) \div width) + 1,
                                ((i - 1) % width) + doc.c0>>].style],
        heights |-> doc.heights,
        table |-> doc.table]

\* Workbook.save: the document written from the workbook in memory; every
\* cell is written with the value of the style object it refers to.
save(w) ==
    [sheet |-> w.sheet, rows |-> w.rows, c0 |-> w.c0, c1 |-> w.c1,
     cells |-> [rc \in DOMAIN w.cells |->
                  [value |-> w.cells[rc].value, style |-> w.heap[w.cells[rc].style]]],
     heights |-> w.heights,
     table |-> w.table]

\* Cell.has_style: any(self._style)
has_style(w, rc) == w.heap[w.cells[rc].style] # 0

(***************************************************************************)
(* FitToExcelExporter.append_table_values                                  *)
(***************************************************************************)
\* A call argument that is a dict / that is not one (a list of (column,
\* value) pairs, kept as the function it would make as a dict).
Dict(items) == [isdict |-> TRUE, items |-> items]
NotADict(items) == [isdict |-> FALSE, items |-> items]

\* columns = {tc.name: i for i, tc in enumerate(table.tableColumns)}
Columns(table) ==
    LET tc == table.tableColumns
    IN [n \in {tc[i] : i \in DOMAIN tc} |->
          (CHOOSE i \in DOMAIN tc : tc[i] = n /\ \A j \in DOMAIN tc : j > i => tc[j] # n) - 1]

\* Check 1: if table.totalsRowShown
HasTotalsRow_unchecked(table) == FALSE
HasTotalsRow(table) == table.totalsRowShown

\* faulty_keys = row_values.keys() - columns.keys()
FaultyKeys(items, columns) == DOMAIN items \ DOMAIN columns

\* The code points of the characters of the names that occur as column names
\* or as keys of row_values.
CodePoints ==
    ("Date" :> <<68, 97, 116, 101>>)
    @@ ("Name" :> <<78, 97, 109, 101>>)
    @@ ("Pace" :> <<80, 97, 99, 101>>)
    @@ ("Title" :> <<84, 105, 116, 108, 101>>)
    @@ ("Bogus" :> <<66, 111, 103, 117, 115>>)
    @@ ("Zo" :> <<90, 111>>)
    @@ ("Zone" :> <<90, 111, 110, 101>>)
    @@ ("date" :> <<100, 97, 116, 101>>)

\* str.__lt__: a differs from b at a first position i, where a has ended or
\* has the smaller code point.
str_lt(a, b) ==
    LET x == CodePoints[a]
        y == CodePoints[b]
    IN \E i \in 1..(Len(x) + 1) :
          /\ i <= Len(y)
          /\ \A j \in 1..(i - 1) : x[j] = y[j]
          /\ (i > Len(x) \/ x[i] < y[i])

\* str.lower on a sequence of code points (A-Z are 65..90).
Lower(x) == [j \in DOMAIN x |-> IF x[j] \in 65..90 THEN x[j] + 32 ELSE x[j]]
\* sorted(names, key=str.lower): the order ignores case.
RECURSIVE sorted_caseless(_)
sorted_caseless(names) ==
    IF names = {} THEN <<>>
    ELSE LET lt(a, b) ==
                 \E i \in 1..(Len(CodePoints[a]) + 1) :
                    /\ i <= Len(CodePoints[b])
                    /\ \A j \in 1..(i - 1) :
                          Lower(CodePoints[a])[j] = Lower(CodePoints[b])[j]
                    /\ \/ i > Len(CodePoints[a])
                       \/ Lower(CodePoints[a])[i] < Lower(CodePoints[b])[i]
             first == CHOOSE a \in names : \A b \in names \ {a} : lt(a, b)
         IN <<first>> \o sorted_caseless(names \ {first})
\* sorted(map(str, faulty_keys)): the names in ascending order of str.
RECURSIVE sorted(_)
sorted(names) ==
    IF names = {} THEN <<>>
    ELSE LET first == CHOOSE a \in names : \A b \in names \ {a} : str_lt(a, b)
         IN <<first>> \o sorted(names \ {first})

\* sep.join(names): the names with sep between neighbours, as the sequence
\* of the pieces of the resulting text.
RECURSIVE join(_, _)
join(sep, names) ==
    IF names = <<>> THEN <<>>
    ELSE IF Len(names) = 1 THEN names
    ELSE <<names[1], sep>> \o join(sep, Tail(names))

\* any(ws.cell(row=row_i, column=c).value is not None for c in column_index_range)
RowNotEmpty_short(w, row_i, min_col, max_col) ==
    \E c \in min_col..(max_col - 1) : w.cells[<<row_i, c>>].value # None
RowNotEmpty(w, row_i, min_col, max_col) ==
    \E c \in min_col..max_col : w.cells[<<row_i, c>>].value # None

\* The value handed to ws.cell as it is.
SafeVal_raw(val) == val
\* safe_val = excel_safe_datetime(val) if isinstance(val, (datetime, time)) else val
SafeVal(val) ==
    IF val.t \in {"datetime", "time"} THEN excel_safe_datetime(val) ELSE val

\* Step 4 with the position of a column counted from 1.
SetRowValues_shifted(w, items, columns, row_i, min_col) ==
    [w EXCEPT !.cells =
        [rc \in DOMAIN w.cells |->
            IF /\ rc[1] = row_i
               /\ \E col \in DOMAIN items :
                     min_col + columns[col] + 1 = rc[2] /\ SafeVal(items[col]) # None
            THEN LET col == CHOOSE col \in DOMAIN items : min_col + columns[col] + 1 = rc[2]
                 IN [w.cells[rc] EXCEPT !.value = SafeVal(items[col])]
            ELSE w.cells[rc]]]
\* Step 4: ws.cell(row=row_i, column=min_col + columns[col], value=safe_val) for
\* every item; Worksheet.cell binds the value only when it is not None.
SetRowValues(w, items, columns, row_i, min_col) ==
    [w EXCEPT !.cells =
        [rc \in DOMAIN w.cells |->
            IF /\ rc[1] = row_i
               /\ \E col \in DOMAIN items :
                     min_col + columns[col] = rc[2] /\ SafeVal(items[col]) # None
            THEN LET col == CHOOSE col \in DOMAIN items : min_col + columns[col] = rc[2]
                 IN [w.cells[rc] EXCEPT !.value = SafeVal(items[col])]
            ELSE w.cells[rc]]]

\* dst._style = copy(src._style): a new StyleArray object with the same content.
CopyStyle_alias(w, src, dst) ==
    [w EXCEPT !.cells[dst].style = w.cells[src].style]
CopyStyle(w, src, dst) ==
    [w EXCEPT !.heap = Append(w.heap, w.heap[w.cells[src].style]),
              !.cells[dst].style = Len(w.heap) + 1]

\* The formula test of step 5: dst is still empty and src holds "=...".
ContinuesFormula_overwrite(w, src, dst) ==
    /\ w.cells[src].value.t = "str"
    /\ StartsWithEq(w.cells[src].value)
ContinuesFormula(w, src, dst) ==
    /\ w.cells[dst].value = None
    /\ w.cells[src].value.t = "str"
    /\ StartsWithEq(w.cells[src].value)

\* The loop body with the style copied from dst into src.
PropagateCell_into_src(w, src, dst) ==
    LET w1 == IF has_style(w, dst) THEN CopyStyle(w, dst, src) ELSE w
    IN IF ContinuesFormula(w1, src, dst)
       THEN [w1 EXCEPT !.cells[dst].value =
                translate_formula(w1.cells[src].value,
                                  Coordinate(src[1], src[2]),
                                  Coordinate(dst[1], dst[2]))]
       ELSE w1
\* Body of the per-column loop of step 5 for the cells src (previous last row)
\* and dst (new row).
PropagateCell(w, src, dst) ==
    LET w1 == IF has_style(w, src) THEN CopyStyle(w, src, dst) ELSE w
    IN IF ContinuesFormula(w1, src, dst)
       THEN [w1 EXCEPT !.cells[dst].value =
                translate_formula(w1.cells[src].value,
                                  Coordinate(src[1], src[2]),
                                  Coordinate(dst[1], dst[2]))]
       ELSE w1

\* for col_i in column_index_range, from col_i on.
RECURSIVE PropagateColumns(_, _, _, _, _)
PropagateColumns(w, col_i, max_col, max_row, row_i) ==
    IF col_i > max_col THEN w
    ELSE PropagateColumns(PropagateCell(w, <<max_row, col_i>>, <<row_i, col_i>>),
                          col_i + 1, max_col, max_row, row_i)

\* Step 5 without the test for a data row: the header row is the source.
PropagateFormat_ungated(w, b, row_i) ==
    PropagateColumns([w EXCEPT !.heights[row_i] = w.heights[b.max_row]],
                     b.min_col, b.max_col, b.max_row, row_i)
\* Step 5: runs only when the table has a data row.
PropagateFormat(w, b, row_i) ==
    IF b.max_row > b.min_row
    THEN PropagateColumns([w EXCEPT !.heights[row_i] = w.heights[b.max_row]],
                          b.min_col, b.max_col, b.max_row, row_i)
    ELSE w

\* Step 6: table.ref = make_ref(min_col, min_row, max_col, row_i)
ResizeTable_stale(w, b, row_i) ==
    [w EXCEPT !.table.ref = make_ref(b.min_col, b.min_row, b.max_col, b.max_row)]
ResizeTable(w, b, row_i) ==
    [w EXCEPT !.table.ref = make_ref(b.min_col, b.min_row, b.max_col, row_i)]

\* The method with the empty-row check ahead of the checks of row_values.
append_table_values_row_first(w, row_values) ==
    LET columns == Columns(w.table)
        b == range_boundaries(w.table.ref)
        row_i == b.max_row + 1
    IN IF HasTotalsRow(w.table)
       THEN [err |-> "RuntimeError", faulty |-> {}, bad |-> <<>>, w |-> w]
       ELSE IF RowNotEmpty(w, row_i, b.min_col, b.max_col)
       THEN [err |-> "ValueError: row is not empty", faulty |-> {}, bad |-> <<>>, w |-> w]
       ELSE IF ~row_values.isdict
       THEN [err |-> "TypeError", faulty |-> {}, bad |-> <<>>, w |-> w]
       ELSE IF FaultyKeys(row_values.items, columns) # {}
       THEN [err |-> "ValueError: invalid column names",
             faulty |-> FaultyKeys(row_values.items, columns),
             bad |-> join(", ", sorted(FaultyKeys(row_values.items, columns))),
             w |-> w]
       ELSE [err |-> "ok", faulty |-> {}, bad |-> <<>>,
             w |-> ResizeTable(
                     PropagateFormat(
                       SetRowValues(w, row_values.items, columns, row_i, b.min_col),
                       b, row_i),
                     b, row_i)]
\* The whole method: the exception raised ("ok" when none) and the workbook
\* the call leaves behind.
append_table_values(w, row_values) ==
    LET columns == Columns(w.table)
        b == range_boundaries(w.table.ref)
        row_i == b.max_row + 1
    IN IF HasTotalsRow(w.table)
       THEN [err |-> "RuntimeError", faulty |-> {}, bad |-> <<>>, w |-> w]
       ELSE IF ~row_values.isdict
       THEN [err |-> "TypeError", faulty |-> {}, bad |-> <<>>, w |-> w]
       ELSE IF FaultyKeys(row_values.items, columns) # {}
       THEN [err |-> "ValueError: invalid column names",
             faulty |-> FaultyKeys(row_values.items, columns),
             bad |-> join(", ", sorted(FaultyKeys(row_values.items, columns))),
             w |-> w]
       ELSE IF RowNotEmpty(w, row_i, b.min_col, b.max_col)
       THEN [err |-> "ValueError: row is not empty", faulty |-> {}, bad |-> <<>>, w |-> w]
       ELSE [err |-> "ok", faulty |-> {}, bad |-> <<>>,
             w |-> ResizeTable(
                     PropagateFormat(
                       SetRowValues(w, row_values.items, columns, row_i, b.min_col),
                       b, row_i),
                     b, row_i)]

(***************************************************************************)
(* FitInfoExtractor                                                        *)
(***************************************************************************)
\* dict.get(key): None when the key is missing.
DictGet(d, key) == IF key \in DOMAIN d THEN d[key] ELSE None
EmptyDict == [key \in {} |-> None]

\* What Stream.from_file / Decoder.read yield for the activity paths of the
\* model: the decoded messages, or an exception.
Decoded(fit) == [raises |-> FALSE, fit |-> fit]
DecodeFails == [raises |-> TRUE, fit |-> EmptyDict]
\* Decoded message lists and messages: a list of messages, a message (a dict
\* of field values).
List(elems) == [t |-> "list", elems |-> elems]
Message(items) == [t |-> "dict", items |-> items]
ActivityFiles ==
    ("run.fit" :> Decoded(
        ("session_mesgs" :> List(<<Message(
                                ("sport" :> Text("running"))
                                @@ ("start_time" :> DateTime(20, 10, TRUE, 0))
                                @@ ("total_distance" :> Num(5000))
                                @@ ("training_load_peak" :> Num(120)))>>))))
    @@ ("bike.fit" :> Decoded(
        ("session_mesgs" :> List(<<Message(
                                ("sport" :> Text("cycling"))
                                @@ ("start_time" :> DateTime(21, 23, TRUE, 2)))>>))
        @@ ("workout_mesgs" :> List(<<Message("wkt_name" :> Text("Intervals"))>>))))
    @@ ("bad.fit" :> DecodeFails)
ActivityPaths == DOMAIN ActivityFiles

\* FitInfoExtractor._extract_info_dict: the first element of the list under
\* the key when that is a non-empty list and the element is a dict, else {}.
extract_info_dict(fit, fit_info_key) ==
    LET list_container == DictGet(fit, fit_info_key)
    IN IF list_container.t = "list" /\ Len(list_container.elems) > 0
       THEN LET info_dict == list_container.elems[1]
            IN IF info_dict.t = "dict" THEN info_dict.items ELSE EmptyDict
       ELSE EmptyDict

FIELDS == {"wrk_sport", "wrk_start_time", "wrk_name", "wrk_length", "wrk_load"}

\* The field methods wrk_sport .. wrk_load.
Field(name, session, workout) ==
    CASE name = "wrk_sport" -> DictGet(session, "sport")
      [] name = "wrk_start_time" ->
            LET v == DictGet(session, "start_time")
            IN IF v.t = "datetime" THEN excel_safe_datetime(v) ELSE None
      [] name = "wrk_name" -> DictGet(workout, "wkt_name")
      [] name = "wrk_length" -> DictGet(session, "total_distance")
      [] name = "wrk_load" -> DictGet(session, "training_load_peak")

\* extract() that leaves out the fields it did not find.
extract_present_only(fit) ==
    LET workout == extract_info_dict(fit, "workout_mesgs")
        session == extract_info_dict(fit, "session_mesgs")
    IN [name \in {n \in FIELDS : Field(n, session, workout) # None} |->
            Field(name, session, workout)]
\* FitInfoExtractor(activity_path).extract() with no field argument.
extract(fit) ==
    LET workout == extract_info_dict(fit, "workout_mesgs")
        session == extract_info_dict(fit, "session_mesgs")
    IN [name \in FIELDS |-> Field(name, session, workout)]

(***************************************************************************)
(* FitToExcelExporter._excel_exporter                                      *)
(***************************************************************************)
\* A filter_map entry: a literal, or a callable named by pred.
Literal(key, lit) == [key |-> key, callable |-> FALSE, lit |-> lit, pred |-> ""]
Predicate(key, pred) == [key |-> key, callable |-> TRUE, lit |-> None, pred |-> pred]

\* The callables used as filters:
\*   is_none    lambda v: v is None
\*   gt_100     lambda v: v > 100      (TypeError on None)
CallPredicate(pred, v) ==
    CASE pred = "is_none" -> [raises |-> FALSE, result |-> v = None]
      [] pred = "gt_100" ->
            IF v.t = "int" THEN [raises |-> FALSE, result |-> v.n > 100]
            ELSE [raises |-> TRUE, result |-> FALSE]

\* passed_filter for one entry, given the extracted value.
PassedFilter_equal_only(entry, fit_info_val) ==
    IF entry.callable
    THEN CallPredicate(entry.pred, fit_info_val)
    ELSE [raises |-> FALSE, result |-> fit_info_val = entry.lit]
PassedFilter(entry, fit_info_val) ==
    IF entry.callable
    THEN CallPredicate(entry.pred, fit_info_val)
    ELSE [raises |-> FALSE,
          result |-> fit_info_val # None /\ fit_info_val = entry.lit]

\* The filter loop from entry k on: the entries evaluated so far (with the
\* value each was given) and how the loop ended.
RECURSIVE FilterLoop_all(_, _, _, _)
FilterLoop_all(filter_map, key_info, k, evaluated) ==
    IF k > Len(filter_map)
    THEN [end |-> IF \A n \in DOMAIN filter_map :
                        PassedFilter(filter_map[n],
                                     DictGet(key_info, filter_map[n].key)).result
                  THEN "passed" ELSE "rejected",
          evaluated |-> evaluated]
    ELSE FilterLoop_all(filter_map, key_info, k + 1,
                        Append(evaluated,
                               [key |-> filter_map[k].key,
                                val |-> DictGet(key_info, filter_map[k].key)]))

RECURSIVE FilterLoop(_, _, _, _)
FilterLoop(filter_map, key_info, k, evaluated) ==
    IF k > Len(filter_map) THEN [end |-> "passed", evaluated |-> evaluated]
    ELSE LET entry == filter_map[k]
             fit_info_val == DictGet(key_info, entry.key)
             r == PassedFilter(entry, fit_info_val)
             seen == Append(evaluated, [key |-> entry.key, val |-> fit_info_val])
         IN IF r.raises THEN [end |-> "raised", evaluated |-> seen]
            ELSE IF ~r.result THEN [end |-> "rejected", evaluated |-> seen]
            ELSE FilterLoop(filter_map, key_info, k + 1, seen)

\* row_values[col_new] = key_info[col_old] for every item of column_map;
\* KeyError when a source key was not extracted.
MissingKeys(column_map, key_info) == DOMAIN column_map \ DOMAIN key_info
RowValues(column_map, key_info) ==
    LET dest == {column_map[col_old] : col_old \in DOMAIN column_map}
    IN [col_new \in dest |->
          key_info[CHOOSE col_old \in DOMAIN column_map : column_map[col_old] = col_new]]

excel_exporter_skip_missing(w, activity_path, column_map, filter_map) ==
    LET file == ActivityFiles[activity_path]
        key_info == extract(file.fit)
        f == FilterLoop(filter_map, key_info, 1, <<>>)
        r == append_table_values(w, Dict(RowValues(column_map, key_info)))
    IN IF file.raises
       THEN [end |-> "raised", err |-> "DecodeError", evaluated |-> <<>>,
             called |-> FALSE, w |-> w]
       ELSE IF f.end = "raised"
       THEN [end |-> "raised", err |-> "TypeError", evaluated |-> f.evaluated,
             called |-> FALSE, w |-> w]
       ELSE IF f.end = "rejected" \/ MissingKeys(column_map, key_info) # {}
       THEN [end |-> "skipped", err |-> "ok", evaluated |-> f.evaluated,
             called |-> FALSE, w |-> w]
       ELSE [end |-> IF r.err = "ok" THEN "appended" ELSE "raised", err |-> r.err,
             evaluated |-> f.evaluated, called |-> TRUE, w |-> r.w]

\* The whole method for one activity path: how it ended ("appended",
\* "skipped" by the filter, or "raised" with the exception err), the filter
\* entries it evaluated, whether append_table_values was called, and the
\* workbook it leaves behind.
excel_exporter(w, activity_path, column_map, filter_map) ==
    LET file == ActivityFiles[activity_path]
        key_info == extract(file.fit)
        f == FilterLoop(filter_map, key_info, 1, <<>>)
        r == append_table_values(w, Dict(RowValues(column_map, key_info)))
    IN IF file.raises
       THEN [end |-> "raised", err |-> "DecodeError", evaluated |-> <<>>,
             called |-> FALSE, w |-> w]
       ELSE IF f.end = "raised"
       THEN [end |-> "raised", err |-> "TypeError", evaluated |-> f.evaluated,
             called |-> FALSE, w |-> w]
       ELSE IF f.end = "rejected"
       THEN [end |-> "skipped", err |-> "ok", evaluated |-> f.evaluated,
             called |-> FALSE, w |-> w]
       ELSE IF MissingKeys(column_map, key_info) # {}
       THEN [end |-> "raised", err |-> "KeyError", evaluated |-> f.evaluated,
             called |-> FALSE, w |-> w]
       ELSE [end |-> IF r.err = "ok" THEN "appended" ELSE "raised", err |-> r.err,
             evaluated |-> f.evaluated, called |-> TRUE, w |-> r.w]

(***************************************************************************)
(* State.                                                                  *)
(***************************************************************************)
VARIABLES
    disk,   \* the persisted document at excel_path
    wb,     \* the workbook in memory (NoWorkbook before load_workbook)
    pc,     \* position in _export_excel_wrapper; "direct" while a caller
            \* that holds the workbook calls append_table_values itself
    call,   \* arguments of the batch call in progress, and the document as
            \* it was persisted when the call started
    idx,    \* 1-based position of the for loop over activity_paths
    exc,    \* the exception propagating out of the call ("none" when none)
    done,   \* how _excel_exporter ended for each activity processed so far
    log,    \* load / save / close of the workbook, in order
    appends,\* number of append_table_values calls that returned normally
    last    \* the last operation: its arguments, its outcome and the
            \* workbook as it was before it

vars == <<disk, wb, pc, call, idx, exc, done, log, appends, last>>

NoWorkbook == [sheet |-> ""]
NoCall == [activity_paths |-> <<>>]
NoOp == [op |-> "none"]

\* Table range of a workbook in memory.
Bounds(w) == range_boundaries(w.table.ref)

(***************************************************************************)
(* Inputs of the model.                                                    *)
(***************************************************************************)
\* Documents against which append_table_values is called directly.
AppendDocs ==
    {Document(minCol, 2, 3 + MaxAppends, totals, hasData, paceKind, blocked, prestyled) :
        minCol \in {1, 26}, totals \in BOOLEAN, hasData \in BOOLEAN,
        paceKind \in {"formula", "text"}, blocked \in {"none", "first", "last"},
        prestyled \in BOOLEAN}

\* row_values arguments of direct calls.
RowValueArgs ==
    { Dict(("Date" :> DateTime(11, 23, TRUE, 0)) @@ ("Name" :> Text("Morning Run"))),
      Dict(("Date" :> TimeOfDay(9, TRUE, 3)) @@ ("Pace" :> None)),
      Dict("Pace" :> Num(7)),
      Dict(("Date" :> DateTime(12, 7, FALSE, 0)) @@ ("Name" :> TimeOfDay(23, TRUE, 0 - 5))),
      Dict(("Name" :> Text("Late")) @@ ("Bogus" :> Num(1))),
      Dict(("Name" :> Text("Late")) @@ ("date" :> Num(1)) @@ ("Zone" :> Num(2))
           @@ ("Zo" :> None) @@ ("Bogus" :> Num(3))),
      Dict(EmptyDict),
      NotADict("Name" :> Text("Late")) }

\* Documents against which batches are run.
BatchDocs ==
    {Document(1, 2, 3 + MaxBatch, FALSE, hasData, "formula", blocked, FALSE) :
        hasData \in BOOLEAN, blocked \in {"none", "last"}}
    \cup {Document(1, 2, 3 + MaxBatch, TRUE, TRUE, "formula", "none", FALSE)}

\* The sequences over S of length 0..n.
RECURSIVE SeqsUpTo(_, _)
SeqsUpTo(S, n) ==
    IF n = 0 THEN {<<>>}
    ELSE LET shorter == SeqsUpTo(S, n - 1)
         IN shorter \cup {Append(q, x) : q \in shorter, x \in S}

ColumnMaps ==
    { ("wrk_start_time" :> "Date") @@ ("wrk_name" :> "Name"),
      ("wrk_date" :> "Date") @@ ("wrk_name" :> "Name"),
      ("wrk_name" :> "Title") }

FilterEntries ==
    { Literal("wrk_sport", Text("running")),
      Literal("wrk_name", None),
      Predicate("wrk_name", "is_none"),
      Predicate("wrk_load", "gt_100"),
      Literal("bogus", Num(1)) }

\* filter_map is a dict: its entries, in insertion order, have distinct keys.
FilterMaps ==
    {f \in SeqsUpTo(FilterEntries, MaxFilterLen) :
        \A a, b \in DOMAIN f : a # b => f[a].key # f[b].key}

BatchPaths == SeqsUpTo(ActivityPaths, MaxBatch)

\* (ws_name, tbl_name) of the exporter.
Targets == {<<SheetName, TableName>>, <<"Sheet2", TableName>>, <<SheetName, "tblBike">>}

(***************************************************************************)
(* Direct calls of the static method on a loaded workbook.                 *)
(***************************************************************************)
InitAppend ==
    /\ disk \in AppendDocs
    /\ wb = load_workbook(disk)
    /\ pc = "direct"
    /\ call = NoCall
    /\ idx = 0
    /\ exc = "none"
    /\ done = <<>>
    /\ log = <<"load">>
    /\ appends = 0
    /\ last = NoOp

\* FitToExcelExporter.append_table_values(ws, table, row_values)
AppendCall(row_values) ==
    /\ pc = "direct"
    /\ appends < MaxAppends
    /\ LET r == append_table_values(wb, row_values)
       IN /\ wb' = r.w
          /\ last' = [op |-> "append", arg |-> row_values, err |-> r.err,
                      faulty |-> r.faulty, bad |-> r.bad, pre |-> wb]
          /\ appends' = IF r.err = "ok" THEN appends + 1 ELSE appends
    /\ UNCHANGED <<disk, pc, call, idx, exc, done, log>>

\* The caller edits the style of a cell of the row just appended; openpyxl's
\* style descriptors write into the cell's StyleArray object in place.
EditStyle(col) ==
    /\ pc = "direct"
    /\ last.op = "append"
    /\ last.err = "ok"
    /\ LET rc == <<Bounds(wb).max_row, col>>
       IN /\ wb' = [wb EXCEPT !.heap[wb.cells[rc].style] = 9]
          /\ last' = [op |-> "edit_style", cell |-> rc, pre |-> wb]
    /\ UNCHANGED <<disk, pc, call, idx, exc, done, log, appends>>

NextAppend ==
    \/ \E row_values \in RowValueArgs : AppendCall(row_values)
    \/ /\ last.op = "append"
       /\ \E col \in Bounds(wb).min_col..Bounds(wb).max_col : EditStyle(col)

SpecAppend == InitAppend /\ [][NextAppend]_vars

(***************************************************************************)
(* Calls of excel_safe_datetime and of FitInfoExtractor.extract on their   *)
(* own.                                                                    *)
(***************************************************************************)
\* UTC offsets of aware values, in whole hours (UTC-12 .. UTC+14).
Offsets == (0 - 12)..14
Timestamps ==
    {DateTime(d, h, TRUE, off) : d \in 1..MaxDay, h \in 0..23, off \in Offsets}
    \cup {DateTime(d, h, FALSE, 0) : d \in 1..MaxDay, h \in 0..23}
TimesOfDay ==
    {TimeOfDay(h, TRUE, off) : h \in {0, 9, 23}, off \in {0 - 5, 0, 1, 3}}
    \cup {TimeOfDay(h, FALSE, 0) : h \in {0, 9, 23}}
NormalizeArgs == Timestamps \cup TimesOfDay \cup {None, Num(7), Text("running")}

\* Decoded activity records: each message list is absent, not a list, empty,
\* or starts with a message (or with something that is not a message); a
\* session message holds any subset of the fields read from it.
Absent == [t |-> "absent"]
SessionMessage(keys, start_time) ==
    Message([k \in keys |->
                CASE k = "sport" -> Text("running")
                  [] k = "start_time" -> start_time
                  [] k = "total_distance" -> Num(5000)
                  [] k = "training_load_peak" -> Num(120)])
SessionMessages ==
    {SessionMessage(keys, start_time) :
        keys \in SUBSET {"sport", "start_time", "total_distance", "training_load_peak"},
        start_time \in {DateTime(MaxDay, 23, TRUE, 0 - 5), DateTime(1, 0, TRUE, 2),
                        DateTime(1, 6, FALSE, 0), Num(5)}}
SessionLists ==
    {Absent, None, List(<<>>), List(<<None>>)}
    \cup {List(<<m>>) : m \in SessionMessages}
    \cup {List(<<Message("sport" :> Text("cycling")), m>>) : m \in SessionMessages}
WorkoutLists ==
    {Absent, None, List(<<>>), List(<<Text("x")>>), List(<<Message(EmptyDict)>>),
     List(<<Message("wkt_name" :> Text("Intervals"))>>),
     List(<<Message("wkt_name" :> None), Message("wkt_name" :> Text("Intervals"))>>)}
FitRecord(session_mesgs, workout_mesgs) ==
    LET part == ("session_mesgs" :> session_mesgs) @@ ("workout_mesgs" :> workout_mesgs)
    IN [k \in {key \in DOMAIN part : part[key] # Absent} |-> part[k]]
FitRecords == {FitRecord(sm, wm) : sm \in SessionLists, wm \in WorkoutLists}

InitExtractor ==
    /\ call \in {[value |-> v] : v \in NormalizeArgs}
                \cup {[fit |-> fit] : fit \in FitRecords}
    /\ pc = "call"
    /\ disk = NoWorkbook
    /\ wb = NoWorkbook
    /\ idx = 0
    /\ exc = "none"
    /\ done = <<>>
    /\ log = <<>>
    /\ appends = 0
    /\ last = NoOp

\* excel_safe_datetime(v)
Normalize ==
    /\ pc = "call"
    /\ "value" \in DOMAIN call
    /\ last' = [op |-> "normalize", result |-> excel_safe_datetime(call.value)]
    /\ pc' = "returned"
    /\ UNCHANGED <<disk, wb, call, idx, exc, done, log, appends>>

\* FitInfoExtractor.extract() on a decoded activity record.
ExtractFields ==
    /\ pc = "call"
    /\ "fit" \in DOMAIN call
    /\ last' = [op |-> "extract", out |-> extract(call.fit)]
    /\ pc' = "returned"
    /\ UNCHANGED <<disk, wb, call, idx, exc, done, log, appends>>

NextExtractor == Normalize \/ ExtractFields

SpecExtractor == InitExtractor /\ [][NextExtractor]_vars

(***************************************************************************)
(* export_activities_to_excel: a batch call through _export_excel_wrapper. *)
(***************************************************************************)
Init ==
    /\ disk \in BatchDocs
    /\ wb = NoWorkbook
    /\ pc = "idle"
    /\ call = NoCall
    /\ idx = 0
    /\ exc = "none"
    /\ done = <<>>
    /\ log = <<>>
    /\ appends = 0
    /\ last = NoOp

\* export_activities_to_excel(activities, excel_path, column_map, ws_name,
\* tbl_name, filter_map) up to wb = load_workbook(self.path).
LoadWorkbook(activity_paths, column_map, filter_map, target) ==
    /\ pc = "idle"
    /\ wb' = load_workbook(disk)
    /\ call' = [activity_paths |-> activity_paths, column_map |-> column_map,
                filter_map |-> filter_map, ws_name |-> target[1],
                tbl_name |-> target[2], before |-> disk]
    /\ log' = Append(log, "load")
    /\ pc' = "resolve"
    /\ UNCHANGED <<disk, idx, exc, done, appends, last>>

\* tbl = ws.tables.get(self.tbl_name) used without the test for None: a
\* missing table goes unnoticed.
ResolveTable_sheet_only ==
    /\ pc = "resolve"
    /\ IF call.ws_name # wb.sheet
       THEN /\ exc' = "KeyError"
            /\ pc' = "finally"
            /\ idx' = idx
       ELSE /\ exc' = exc
            /\ pc' = "loop"
            /\ idx' = 1
    /\ UNCHANGED <<disk, wb, call, done, log, appends, last>>
\* ws = wb[self.ws_name]; tbl = ws.tables.get(self.tbl_name): KeyError when
\* either is missing.
ResolveTable ==
    /\ pc = "resolve"
    /\ IF call.ws_name # wb.sheet \/ call.tbl_name # wb.table.name
       THEN /\ exc' = "KeyError"
            /\ pc' = "finally"
            /\ idx' = idx
       ELSE /\ exc' = exc
            /\ pc' = "loop"
            /\ idx' = 1
    /\ UNCHANGED <<disk, wb, call, done, log, appends, last>>

\* Where control goes after _excel_exporter returned or raised inside the
\* for loop of _export_activities_inner.
AfterRecord_swallow(r) == "loop"
\* A rejected record ends the loop like an exception, without one pending.
AfterRecord_stop_on_skip(r) ==
    IF r.end \in {"raised", "skipped"} THEN "finally" ELSE "loop"
AfterRecord(r) == IF r.end = "raised" THEN "finally" ELSE "loop"

\* One iteration of the for loop: self._excel_exporter(activity_path, ...).
ExportRecord ==
    /\ pc = "loop"
    /\ idx <= Len(call.activity_paths)
    /\ LET r == excel_exporter(wb, call.activity_paths[idx], call.column_map,
                               call.filter_map)
       IN /\ wb' = r.w
          /\ done' = Append(done, [path |-> call.activity_paths[idx], end |-> r.end])
          /\ last' = [op |-> "record", idx |-> idx, end |-> r.end, err |-> r.err,
                      evaluated |-> r.evaluated, called |-> r.called, pre |-> wb]
          /\ exc' = IF r.end = "raised" THEN r.err ELSE exc
          /\ pc' = AfterRecord(r)
          /\ idx' = idx + 1
          /\ appends' = IF r.end = "appended" THEN appends + 1 ELSE appends
    /\ UNCHANGED <<disk, call, log>>

\* wb.save(self.path), reached when inner_func returned.
Save ==
    /\ pc = "loop"
    /\ idx > Len(call.activity_paths)
    /\ disk' = save(wb)
    /\ log' = Append(log, "save")
    /\ pc' = "finally"
    /\ UNCHANGED <<wb, call, idx, exc, done, appends, last>>

\* wb.close() placed after wb.save() instead of in the finally clause: an
\* exception leaves the call with the workbook open.
Close_unless_raised ==
    /\ pc = "finally"
    /\ log' = IF exc = "none" THEN Append(log, "close") ELSE log
    /\ pc' = "done"
    /\ UNCHANGED <<disk, wb, call, idx, exc, done, appends, last>>
\* finally: wb.close(); a pending exception then leaves the call.
Close ==
    /\ pc = "finally"
    /\ log' = Append(log, "close")
    /\ pc' = "done"
    /\ UNCHANGED <<disk, wb, call, idx, exc, done, appends, last>>

Next ==
    \/ /\ pc = "idle"
       /\ \E activity_paths \in BatchPaths, column_map \in ColumnMaps,
             filter_map \in FilterMaps, target \in Targets :
               LoadWorkbook(activity_paths, column_map, filter_map, target)
    \/ ResolveTable
    \/ ExportRecord
    \/ Save
    \/ Close

Spec == Init /\ [][Next]_vars

(***************************************************************************)
(* Properties.                                                             *)
(***************************************************************************)
InLog(e) == \E n \in DOMAIN log : log[n] = e
AppendOk == last.op = "append" /\ last.err = "ok"

\* C1 (Spec): batch atomicity.  When _excel_exporter raises for record k,
\* k is the last record processed, save is never invoked, and the persisted
\* document is the one the call started from, whatever was appended in
\* memory before.
C1_BatchAtomicity ==
    \A k \in DOMAIN done :
        done[k].end = "raised" =>
            /\ k = Len(done)
            /\ ~InLog("save")
            /\ disk = call.before
            /\ exc # "none"

\* A batch that ended: the first record was appended in memory, the second
\* raised, and the workbook in memory differs from the persisted one.
C1_Witness ==
    /\ pc = "done"
    /\ Len(done) = 2
    /\ done[1].end = "appended"
    /\ done[2].end = "raised"
    /\ save(wb) # disk

\* C2 (SpecAppend): a successful append (the table has no totals row) sets
\* the range to (min_col, min_row, max_col, max_row + 1); after any sequence
\* of calls max_row is the initial max_row plus the number of successful
\* appends and the other three boundaries are the initial ones.
C2_RangeGrowsByOne ==
    /\ AppendOk =>
          /\ ~last.pre.table.totalsRowShown
          /\ wb.table.ref = [last.pre.table.ref EXCEPT !.r2 = @ + 1]
          /\ Bounds(wb) = [Bounds(last.pre) EXCEPT !.max_row = @ + 1]
    /\ Bounds(wb) = [range_boundaries(disk.table.ref) EXCEPT !.max_row = @ + appends]

\* Two successful appends in a row on a table that starts in column Z.
C2_Witness ==
    /\ AppendOk
    /\ appends = 2
    /\ Bounds(wb).min_col = 26

\* The prospective row of the call recorded in last holds a value.
TargetRowOccupied ==
    /\ last.op = "append"
    /\ \E c \in Bounds(last.pre).min_col..Bounds(last.pre).max_col :
          last.pre.cells[<<Bounds(last.pre).max_row + 1, c>>].value # None

\* The argument of the call is a dict whose keys are column names.
ArgIsValid ==
    /\ last.arg.isdict
    /\ DOMAIN last.arg.items \subseteq {Headers[n] : n \in DOMAIN Headers}

\* The three checks that precede the empty-row check pass.
EarlierChecksPass == ~last.pre.table.totalsRowShown /\ ArgIsValid

\* C3 as stated: a non-empty cell in row max_row + 1 makes the call fail with
\* the safety violation and mutate nothing.
C3_Original ==
    TargetRowOccupied =>
        /\ last.err = "ValueError: row is not empty"
        /\ wb = last.pre

\* C3 (SpecAppend), amended: a non-empty cell in row max_row + 1 makes the
\* call fail and mutate nothing (values, styles, row heights, table range);
\* the error is the safety violation when the three earlier checks pass.
C3_OccupiedRowRejected ==
    TargetRowOccupied =>
        /\ last.err # "ok"
        /\ wb = last.pre
        /\ EarlierChecksPass => last.err = "ValueError: row is not empty"

\* The last table column of row max_row + 1 is the only occupied one, the
\* argument is valid, and the call was rejected.
C3_Witness ==
    /\ TargetRowOccupied
    /\ EarlierChecksPass
    /\ DOMAIN last.arg.items # {}
    /\ last.pre.cells[<<Bounds(last.pre).max_row + 1, Bounds(last.pre).min_col>>].value
         = None
    /\ last.err = "ValueError: row is not empty"

\* C4 (SpecAppend): on a table with a totals row every call fails with the
\* RuntimeError of check 1 and leaves the workbook (table range, cells,
\* styles, row heights) as it was, for every argument and grid, however often
\* the call is repeated.
C4_TotalsRowRejected ==
    (last.op = "append" /\ last.pre.table.totalsRowShown) =>
        /\ last.err = "RuntimeError"
        /\ wb = last.pre
        /\ save(wb) = disk
        /\ appends = 0

\* A call with a valid argument and an empty target row, rejected for the
\* totals row alone.
C4_Witness ==
    /\ last.op = "append"
    /\ last.pre.table.totalsRowShown
    /\ ArgIsValid
    /\ ~TargetRowOccupied
    /\ DOMAIN last.arg.items # {}
    /\ last.err = "RuntimeError"

\* A successful append to a table that had at least one data row.
AppendOkWithData == AppendOk /\ Bounds(last.pre).max_row > Bounds(last.pre).min_row

\* Cells of the call recorded in last, for table column c: the cell of the
\* previous last row and the cell of the new row.
SrcCell(c) == <<Bounds(last.pre).max_row, c>>
DstCell(c) == <<Bounds(last.pre).max_row + 1, c>>
TableCols == Bounds(last.pre).min_col..Bounds(last.pre).max_col
ColumnName(c) == last.pre.table.tableColumns[c - Bounds(last.pre).min_col + 1]
IsFormula(v) == v.t = "str" /\ v.toks # <<>> /\ v.toks[1] = Lit("=")

\* The formula of cell (row, c) filled down to row + 1: every reference
\* without "$" on its row moves down one row, everything else is kept.
FilledDown(v) ==
    Str([n \in DOMAIN v.toks |->
           IF v.toks[n].k = "ref" /\ ~v.toks[n].ra
           THEN [v.toks[n] EXCEPT !.row = @ + 1]
           ELSE v.toks[n]])

\* What the call was given for column c, as written to a cell (timezone
\* information removed).
GivenValue(c) ==
    LET v == last.arg.items[ColumnName(c)]
    IN IF v.t \in {"datetime", "time"} THEN excel_safe_datetime(v) ELSE v

\* C5 as stated: the new-row cell holds the continued formula exactly when
\* its column is not part of Row Values and the source cell holds a formula;
\* a column of Row Values holds its value, never a continued formula.
C5_Original ==
    AppendOkWithData =>
        \A c \in TableCols :
            LET src == last.pre.cells[SrcCell(c)].value
                dst == wb.cells[DstCell(c)].value
                inRowValues == ColumnName(c) \in DOMAIN last.arg.items
            IN /\ (IsFormula(src) /\ dst = FilledDown(src))
                    <=> (~inRowValues /\ IsFormula(src))
               /\ inRowValues => dst = GivenValue(c)

\* C5 (SpecAppend), amended: the new-row cell holds the continued formula
\* exactly when it is still empty after Row Values were written (its column
\* is not in Row Values, or its value there is None) and the source cell
\* holds text beginning with "="; a column whose Row Values value is not None
\* holds that value; any other new-row cell stays empty.
C5_FormulaContinuation ==
    AppendOkWithData =>
        \A c \in TableCols :
            LET src == last.pre.cells[SrcCell(c)].value
                dst == wb.cells[DstCell(c)].value
                given == /\ ColumnName(c) \in DOMAIN last.arg.items
                         /\ GivenValue(c) # None
            IN /\ (IsFormula(src) /\ dst = FilledDown(src))
                    <=> (~given /\ IsFormula(src))
               /\ given => dst = GivenValue(c)
               /\ (~given /\ ~IsFormula(src)) => dst = None

\* The formula column was given a number while its source cell holds a
\* formula, and another column was continued from a formula in an earlier
\* call (the table then has two data rows).
C5_Witness ==
    /\ AppendOkWithData
    /\ \E c \in TableCols :
          /\ ColumnName(c) \in DOMAIN last.arg.items
          /\ IsFormula(last.pre.cells[SrcCell(c)].value)
          /\ wb.cells[DstCell(c)].value = Num(7)
    /\ appends = 2

\* Value of the style of cell rc in workbook w.
StyleOf(w, rc) == w.heap[w.cells[rc].style]

\* C6 as stated: after a successful append to a table with a data row every
\* new-row cell has the style of the cell above it, and an edit of a new-row
\* cell's style leaves the style of the cell above it unchanged.
C6_Original ==
    /\ AppendOkWithData =>
          \A c \in TableCols :
              /\ StyleOf(wb, DstCell(c)) = StyleOf(last.pre, SrcCell(c))
              /\ wb.cells[DstCell(c)].style # wb.cells[SrcCell(c)].style
    /\ last.op = "edit_style" =>
          StyleOf(wb, <<last.cell[1] - 1, last.cell[2]>>)
            = StyleOf(last.pre, <<last.cell[1] - 1, last.cell[2]>>)

\* C6 (SpecAppend), amended: after a successful append to a table with a data
\* row, every new-row cell whose source cell carries a style has a style
\* equal to it by value in a style object of its own, and a new-row cell
\* whose source cell carries no style keeps the style it had; no two cells
\* ever share a style object, and an edit of a new-row cell's style changes
\* the style of no other cell.
C6_StyleCopy ==
    /\ AppendOkWithData =>
          \A c \in TableCols :
              IF StyleOf(last.pre, SrcCell(c)) # 0
              THEN StyleOf(wb, DstCell(c)) = StyleOf(last.pre, SrcCell(c))
              ELSE StyleOf(wb, DstCell(c)) = StyleOf(last.pre, DstCell(c))
    /\ \A rc1, rc2 \in DOMAIN wb.cells :
          rc1 # rc2 => wb.cells[rc1].style # wb.cells[rc2].style
    /\ last.op = "edit_style" =>
          \A rc \in DOMAIN wb.cells :
              rc # last.cell => StyleOf(wb, rc) = StyleOf(last.pre, rc)

\* The style of a new-row cell copied from a styled source cell was edited.
C6_Witness ==
    /\ last.op = "edit_style"
    /\ StyleOf(last.pre, last.cell) # 0
    /\ StyleOf(last.pre, last.cell) = StyleOf(last.pre, <<last.cell[1] - 1, last.cell[2]>>)
    /\ StyleOf(wb, last.cell) # StyleOf(wb, <<last.cell[1] - 1, last.cell[2]>>)

\* C7 (SpecAppend): a formula continued by an append is the source formula
\* filled down by one row: the same tokens, every reference keeping its
\* column letters and its "$" marks, a row without "$" being the source row
\* plus one and a row with "$" being unchanged.
C7_FillDownByOne ==
    AppendOkWithData =>
        \A c \in TableCols :
            LET src == last.pre.cells[SrcCell(c)].value
                dst == wb.cells[DstCell(c)].value
            IN (last.pre.cells[DstCell(c)].value = None
                /\ (ColumnName(c) \in DOMAIN last.arg.items => GivenValue(c) = None)
                /\ IsFormula(src)) =>
                   /\ dst.t = "str"
                   /\ Len(dst.toks) = Len(src.toks)
                   /\ \A n \in DOMAIN src.toks :
                         IF src.toks[n].k = "ref"
                         THEN /\ dst.toks[n].k = "ref"
                              /\ dst.toks[n].col = src.toks[n].col
                              /\ dst.toks[n].ca = src.toks[n].ca
                              /\ dst.toks[n].ra = src.toks[n].ra
                              /\ dst.toks[n].row =
                                   IF src.toks[n].ra THEN src.toks[n].row
                                   ELSE src.toks[n].row + (DstCell(c)[1] - SrcCell(c)[1])
                              /\ DstCell(c)[1] - SrcCell(c)[1] = 1
                         ELSE dst.toks[n] = src.toks[n]

\* A formula with relative and absolute references in column AB was
\* continued twice.
C7_Witness ==
    /\ AppendOkWithData
    /\ appends = 2
    /\ \E c \in TableCols :
          /\ c = 28
          /\ IsFormula(last.pre.cells[SrcCell(c)].value)
          /\ IsFormula(wb.cells[DstCell(c)].value)
          /\ \E n, m \in DOMAIN wb.cells[DstCell(c)].value.toks :
                LET toks == wb.cells[DstCell(c)].value.toks
                IN /\ toks[n].k = "ref" /\ toks[n].ra
                   /\ toks[m].k = "ref" /\ ~toks[m].ra /\ toks[m].row = DstCell(c)[1]

\* The activity of the record recorded in last, and the metrics extracted
\* from it.
LastPath == call.activity_paths[last.idx]
LastDecoded == ~ActivityFiles[LastPath].raises
LastMetric(key) ==
    LET session == ActivityFiles[LastPath].fit["session_mesgs"].elems[1].items
        fit == ActivityFiles[LastPath].fit
    IN CASE key = "wrk_sport" /\ "sport" \in DOMAIN session -> session["sport"]
         [] key = "wrk_load" /\ "training_load_peak" \in DOMAIN session ->
               session["training_load_peak"]
         [] key = "wrk_name" /\ "workout_mesgs" \in DOMAIN fit ->
               fit["workout_mesgs"].elems[1].items["wkt_name"]
         [] OTHER -> None

\* A filter_map entry passes on metric v: a literal iff v is not None and
\* equals it; a callable iff it returns true on v.
EntryPasses(entry, v) ==
    IF entry.callable
    THEN CASE entry.pred = "is_none" -> v = None
           [] entry.pred = "gt_100" -> v.t = "int" /\ v.n > 100
    ELSE v # None /\ v = entry.lit
AllEntriesPass ==
    \A n \in DOMAIN call.filter_map :
        EntryPasses(call.filter_map[n], LastMetric(call.filter_map[n].key))

\* C8 (Spec): a record reaches append_table_values only if every entry of
\* filter_map passes, a literal passing iff the metric is not None and equals
\* it, a callable iff it returns true on the extracted value, None included;
\* a record on which every entry passes is not skipped.
C8_FilterDecision ==
    last.op = "record" =>
        /\ last.called => AllEntriesPass
        /\ (LastDecoded /\ AllEntriesPass) => last.end # "skipped"
        /\ \A n \in DOMAIN last.evaluated :
              /\ last.evaluated[n].key = call.filter_map[n].key
              /\ last.evaluated[n].val = LastMetric(call.filter_map[n].key)

\* A record was exported through a literal and a callable, the callable
\* having been given None.
C8_Witness ==
    /\ last.op = "record"
    /\ last.end = "appended"
    /\ Len(call.filter_map) = 2
    /\ \E n, m \in DOMAIN call.filter_map :
          /\ ~call.filter_map[n].callable
          /\ call.filter_map[m].callable
          /\ last.evaluated[m].val = None

\* C9 (Spec): for a record the filter rejects, the entries evaluated are
\* those up to the first failing one and no later one, append_table_values is
\* not called, and the workbook (table range, cells, styles, row heights) is
\* as it was before the record.
C9_RejectedRecordNoEffect ==
    (last.op = "record" /\ last.end = "skipped") =>
        LET n == Len(last.evaluated)
        IN /\ n \in DOMAIN call.filter_map
           /\ ~EntryPasses(call.filter_map[n], LastMetric(call.filter_map[n].key))
           /\ \A m \in 1..(n - 1) :
                 EntryPasses(call.filter_map[m], LastMetric(call.filter_map[m].key))
           /\ ~last.called
           /\ wb = last.pre
           /\ exc = "none"

\* The second record of a batch was rejected by the first of two entries,
\* after the first record had been appended.
C9_Witness ==
    /\ last.op = "record"
    /\ last.end = "skipped"
    /\ last.idx = 2
    /\ done[1].end = "appended"
    /\ Len(call.filter_map) = 2
    /\ Len(last.evaluated) = 1

\* column_map names a source key that extract() does not produce.
UnknownSourceKey == \E k \in DOMAIN call.column_map : k \notin FIELDS

\* C10 as stated: with such a column_map every decoded record, whatever the
\* filter_map, ends in the missing-field error, which leaves the batch.
C10_Original ==
    (last.op = "record" /\ LastDecoded /\ UnknownSourceKey) =>
        /\ last.end = "raised"
        /\ last.err = "KeyError"
        /\ exc = "KeyError"

\* C10 (Spec), amended: with such a column_map every decoded record that
\* passes every entry of filter_map ends in the missing-field error
\* (KeyError): append_table_values is not called, the workbook is as before
\* the record, the error leaves the batch, no later record is processed and
\* the document is not saved.
C10_MissingFieldError ==
    (last.op = "record" /\ LastDecoded /\ UnknownSourceKey /\ AllEntriesPass) =>
        /\ last.end = "raised"
        /\ last.err = "KeyError"
        /\ ~last.called
        /\ wb = last.pre
        /\ exc = "KeyError"
        /\ pc \in {"finally", "done"}
        /\ Len(done) = last.idx
        /\ ~InLog("save")
        /\ disk = call.before

\* The call ended with the KeyError of a record that passed a non-empty
\* filter_map.
C10_Witness ==
    /\ last.op = "record"
    /\ UnknownSourceKey
    /\ call.filter_map # <<>>
    /\ LastDecoded
    /\ AllEntriesPass
    /\ last.err = "KeyError"
    /\ pc = "done"

(***************************************************************************)
(* _export_excel_wrapper: the workbook as a scoped resource                *)
(***************************************************************************)
Count(e) == Cardinality({n \in DOMAIN log : log[n] = e})

\* C11: a batch call opens the document exactly once; once opened it is
\* closed exactly once, as the last thing the call does, and on every exit
\* path: a call that has opened the document can always take a further step
\* until it has closed it. The document is saved at most once, only when the
\* sheet and the table were found and no record raised, and before the close.
C11_ScopedDocument ==
    /\ Count("load") = IF pc = "idle" THEN 0 ELSE 1
    /\ Count("close") = IF pc = "done" THEN 1 ELSE 0
    /\ Count("save") <= 1
    /\ pc # "idle" => log[1] = "load"
    /\ pc = "done" => log[Len(log)] = "close"
    /\ pc = "resolve" => ENABLED ResolveTable
    /\ pc = "loop" => idx \in 1..Len(call.activity_paths) \/ ENABLED Save
    /\ pc = "finally" => ENABLED Close
    /\ pc \in {"idle", "resolve", "loop", "finally", "done"}
    /\ InLog("save") =>
          /\ exc = "none"
          /\ call.ws_name = SheetName /\ call.tbl_name = TableName
          /\ Len(done) = Len(call.activity_paths)
          /\ \A k \in DOMAIN done : done[k].end # "raised"

\* A record that passed its filter was rejected by the validation of
\* append_table_values, and the call has ended.
C11_Witness ==
    /\ pc = "done"
    /\ last.op = "record"
    /\ last.called
    /\ exc = "ValueError: row is not empty"
    /\ log = <<"load", "close">>

(***************************************************************************)
(* excel_safe_datetime on timestamps                                       *)
(***************************************************************************)
\* Hours since day 0, 00:00 shown by the clock reading of a timestamp.
Reading(v) == v.d * 24 + v.h

\* C12 (SpecExtractor): excel_safe_datetime turns a timestamp with UTC offset
\* off into the naive timestamp whose clock reading is the original one
\* shifted by 1h - off, the date rolling over with the hour; a naive timestamp
\* is returned unchanged; the result never carries a timezone.
C12_NormalizeToCET ==
    (last.op = "normalize" /\ call.value.t = "datetime") =>
        /\ last.result.t = "datetime"
        /\ ~last.result.aware
        /\ last.result.h \in 0..23
        /\ call.value.aware =>
              Reading(last.result) = Reading(call.value) + 1 - call.value.off
        /\ ~call.value.aware => last.result = call.value

\* A zoned timestamp late in the evening west of UTC+1: the date rolls over.
C12_Witness ==
    /\ last.op = "normalize"
    /\ call.value.t = "datetime"
    /\ call.value.aware
    /\ call.value.off < 0
    /\ last.result.d = call.value.d + 1

(***************************************************************************)
(* FitInfoExtractor.extract with no field argument                         *)
(***************************************************************************)
\* The record has a first message under the key, and that message has the
\* field.
FirstMessageHas(key, field) ==
    /\ key \in DOMAIN call.fit
    /\ call.fit[key].t = "list"
    /\ call.fit[key].elems # <<>>
    /\ call.fit[key].elems[1].t = "dict"
    /\ field \in DOMAIN call.fit[key].elems[1].items
FirstMessageField(key, field) ==
    IF FirstMessageHas(key, field)
    THEN call.fit[key].elems[1].items[field]
    ELSE None
ExpectedStartTime ==
    LET v == FirstMessageField("session_mesgs", "start_time")
    IN IF v.t # "datetime" THEN None
       ELSE IF ~v.aware THEN v
       ELSE CHOOSE r \in {DateTime(d, h, FALSE, 0) : d \in 0..(MaxDay + 1), h \in 0..23} :
               Reading(r) = Reading(v) + 1 - v.off

\* C13 (SpecExtractor): extract() with no field argument returns, for every
\* decoded activity record (message lists absent, not lists, empty, starting
\* with something that is not a message, or with a message lacking fields),
\* a mapping whose key set is exactly the five fields; a field found in the
\* first session / workout message has that value (start_time normalized to
\* UTC+1) and a missing one is None; the call always returns.
C13_ExtractTotal ==
    /\ (pc = "returned" /\ "fit" \in DOMAIN call) => last.op = "extract"
    /\ last.op = "extract" =>
          /\ DOMAIN last.out =
                {"wrk_sport", "wrk_start_time", "wrk_name", "wrk_length", "wrk_load"}
          /\ last.out["wrk_sport"] = FirstMessageField("session_mesgs", "sport")
          /\ last.out["wrk_start_time"] = ExpectedStartTime
          /\ last.out["wrk_name"] = FirstMessageField("workout_mesgs", "wkt_name")
          /\ last.out["wrk_length"] = FirstMessageField("session_mesgs", "total_distance")
          /\ last.out["wrk_load"] = FirstMessageField("session_mesgs", "training_load_peak")

\* A record with an empty session list and no workout list: five None values.
C13_Witness ==
    /\ last.op = "extract"
    /\ call.fit = FitRecord(List(<<>>), Absent)
    /\ \A name \in DOMAIN last.out : last.out[name] = None
    /\ Cardinality(DOMAIN last.out) = 5

(***************************************************************************)
(* _export_excel_wrapper: sheet and table lookup                           *)
(***************************************************************************)
TargetMissing ==
    \/ call.ws_name # call.before.sheet
    \/ call.tbl_name # call.before.table.name

\* C14: when the named sheet or the named table does not exist in the
\* document, the batch call fails with the not-found error (KeyError) before
\* any activity is decoded or any record processed; the document is not
\* saved and it is closed.
C14_MissingTarget ==
    (pc \in {"loop", "finally", "done"} /\ TargetMissing) =>
        /\ pc # "loop"
        /\ exc = "KeyError"
        /\ done = <<>>
        /\ last = NoOp
        /\ appends = 0
        /\ ~InLog("save")
        /\ disk = call.before
        /\ pc = "done" => log = <<"load", "close">>

\* A batch of activities against a document whose sheet exists but whose
\* table does not, after the call has ended.
C14_Witness ==
    /\ pc = "done"
    /\ call.ws_name = call.before.sheet
    /\ call.tbl_name # call.before.table.name
    /\ call.activity_paths # <<>>
    /\ exc = "KeyError"

(***************************************************************************)
(* append_table_values: order of the checks                                *)
(***************************************************************************)
\* The outcome of the call recorded in last when the four checks are made in
\* the order totals row, mapping, column names, empty target row.
EarliestFailingCheck ==
    IF last.pre.table.totalsRowShown THEN "RuntimeError"
    ELSE IF ~last.arg.isdict THEN "TypeError"
    ELSE IF ~ArgIsValid THEN "ValueError: invalid column names"
    ELSE IF TargetRowOccupied THEN "ValueError: row is not empty"
    ELSE "ok"

\* C15 (SpecAppend): the checks run in the order (1) totals row, (2)
\* row_values is a mapping, (3) unknown column names, (4) target row empty:
\* the error raised is that of the earliest failing check, and a call that
\* raised wrote no cell, row height or table range.
C15_ValidationOrder ==
    last.op = "append" =>
        /\ last.err = EarliestFailingCheck
        /\ last.err # "ok" => wb = last.pre

\* Checks 3 and 4 fail at once: an unknown column name and an occupied
\* target row; the error is the one of check 3.
C15_Witness ==
    /\ last.op = "append"
    /\ ~last.pre.table.totalsRowShown
    /\ last.arg.isdict
    /\ ~ArgIsValid
    /\ TargetRowOccupied
    /\ last.err = "ValueError: invalid column names"
    /\ wb = last.pre

(***************************************************************************)
(* append_table_values: conversion of the values written                   *)
(***************************************************************************)
\* The naive value showing the UTC+1 clock reading of an aware timestamp or
\* time of day.
ClockAtCET(v) ==
    IF v.t = "datetime"
    THEN CHOOSE r \in {DateTime(d, h, FALSE, 0) : d \in (v.d - 1)..(v.d + 1), h \in 0..23} :
            Reading(r) = Reading(v) + 1 - v.off
    ELSE TimeOfDay((v.h + 1 - v.off) % 24, FALSE, 0)
IsZoned(v) == v.t \in {"datetime", "time"} /\ v.aware

\* C16 as stated: every zoned timestamp and every zoned time of day of Row
\* Values is written as its UTC+1 clock reading without timezone, every
\* other value (None, which writes nothing, aside) is written unchanged.
C16_Original ==
    AppendOk =>
        \A c \in TableCols :
            (ColumnName(c) \in DOMAIN last.arg.items
             /\ last.arg.items[ColumnName(c)] # None) =>
                LET v == last.arg.items[ColumnName(c)]
                IN wb.cells[DstCell(c)].value = IF IsZoned(v) THEN ClockAtCET(v) ELSE v

\* C16 (SpecAppend), amended: a zoned timestamp of Row Values is written as
\* its UTC+1 clock reading without timezone; a zoned time of day is written
\* with its own clock reading, the timezone removed and no shift applied;
\* every other value that is not None is written unchanged.
C16_ValueConversion ==
    AppendOk =>
        \A c \in TableCols :
            (ColumnName(c) \in DOMAIN last.arg.items
             /\ last.arg.items[ColumnName(c)] # None) =>
                LET v == last.arg.items[ColumnName(c)]
                    dst == wb.cells[DstCell(c)].value
                IN /\ (IsZoned(v) /\ v.t = "datetime") => dst = ClockAtCET(v)
                   /\ (IsZoned(v) /\ v.t = "time") => dst = TimeOfDay(v.h, FALSE, 0)
                   /\ ~IsZoned(v) => dst = v

\* A time of day of 09:00 at UTC+3 was appended and the cell reads 09:00,
\* two hours off its UTC+1 reading.
C16_Witness ==
    /\ AppendOk
    /\ \E c \in TableCols :
          /\ ColumnName(c) \in DOMAIN last.arg.items
          /\ last.arg.items[ColumnName(c)] = TimeOfDay(9, TRUE, 3)
          /\ wb.cells[DstCell(c)].value = TimeOfDay(9, FALSE, 0)
          /\ ClockAtCET(last.arg.items[ColumnName(c)]) = TimeOfDay(7, FALSE, 0)

(***************************************************************************)
(* append_table_values: where the values are written                       *)
(***************************************************************************)
\* 0-based position of column name col in the header order of the table.
PositionOf(col) ==
    CHOOSE i \in 0..(Len(last.pre.table.tableColumns) - 1) :
        last.pre.table.tableColumns[i + 1] = col
\* The cell (max_row + 1, min_col + i) for the key col of Row Values, from
\* the table range as it was before the call.
KeyCell(col) ==
    <<Bounds(last.pre).max_row + 1, Bounds(last.pre).min_col + PositionOf(col)>>
Converted(col) == SafeVal(last.arg.items[col])
\* Cell rc took the formula of the cell above it, continued by one row.
Continued(rc) ==
    /\ rc[1] = Bounds(last.pre).max_row + 1
    /\ rc[2] \in TableCols
    /\ AppendOkWithData
    /\ IsFormula(last.pre.cells[<<rc[1] - 1, rc[2]>>].value)
    /\ wb.cells[rc].value = FilledDown(last.pre.cells[<<rc[1] - 1, rc[2]>>].value)

\* C17 as stated: after a successful append the cell (max_row + 1,
\* min_col + i) of every key of Row Values holds the converted value, and no
\* other cell received a value of Row Values.
C17_Original ==
    AppendOk =>
        /\ \A col \in DOMAIN last.arg.items :
              wb.cells[KeyCell(col)].value = Converted(col)
        /\ \A rc \in DOMAIN wb.cells :
              rc \notin {KeyCell(col) : col \in DOMAIN last.arg.items} =>
                  \/ wb.cells[rc].value = last.pre.cells[rc].value
                  \/ Continued(rc)

\* C17 (SpecAppend), amended: after a successful append the cell
\* (max_row + 1, min_col + i) of every key of Row Values whose converted
\* value is not None holds that value, max_row and min_col being those read
\* before the append and i the position of the key in the header order; a
\* key whose value is None writes nothing; every other cell keeps its value
\* or, in the new row, takes the continued formula of the cell above it.
C17_ColumnPlacement ==
    AppendOk =>
        /\ \A col \in DOMAIN last.arg.items :
              Converted(col) # None => wb.cells[KeyCell(col)].value = Converted(col)
        /\ \A rc \in DOMAIN wb.cells :
              rc \notin {KeyCell(col) : col \in {k \in DOMAIN last.arg.items :
                                                    Converted(k) # None}} =>
                  \/ wb.cells[rc].value = last.pre.cells[rc].value
                  \/ Continued(rc)

\* The second append to a table that starts in column Z wrote the last
\* column alone: the value is in column AB of the row below the first
\* appended row.
C17_Witness ==
    /\ AppendOk
    /\ appends = 2
    /\ Bounds(last.pre).min_col = 26
    /\ DOMAIN last.arg.items = {"Pace"}
    /\ KeyCell("Pace") = <<Bounds(disk).max_row + 2, 28>>
    /\ wb.cells[KeyCell("Pace")].value = Num(7)

(***************************************************************************)
(* append_table_values: what a successful call leaves alone                *)
(***************************************************************************)
\* Cell rc lies in the row appended by the call recorded in last, within the
\* columns of the table.
InNewRow(rc) == rc[1] = Bounds(last.pre).max_row + 1 /\ rc[2] \in TableCols
\* Cell rc lies below the table of the loaded document, within its columns.
BelowOrBeside(rc) ==
    /\ rc[1] > Bounds(disk).max_row
    /\ rc[2] \in Bounds(disk).min_col..Bounds(disk).max_col

\* C18 (SpecAppend): a successful append changes only cells of row
\* max_row + 1 within columns min_col..max_col, that row's height and the
\* table range; every cell whose value changed was empty before the call;
\* values and styles of rows up to max_row and of cells outside the column
\* range are as before the call, and, after any sequence of appends and
\* style edits of appended cells, as in the document that was loaded.
C18_FrameOfAppend ==
    /\ AppendOk =>
          /\ DOMAIN wb.cells = DOMAIN last.pre.cells
          /\ \A rc \in DOMAIN wb.cells :
                /\ ~InNewRow(rc) =>
                      /\ wb.cells[rc] = last.pre.cells[rc]
                      /\ StyleOf(wb, rc) = StyleOf(last.pre, rc)
                /\ wb.cells[rc].value # last.pre.cells[rc].value =>
                      last.pre.cells[rc].value = None
          /\ \A r \in DOMAIN wb.heights :
                r # Bounds(last.pre).max_row + 1 => wb.heights[r] = last.pre.heights[r]
          /\ [wb.table EXCEPT !.ref = last.pre.table.ref] = last.pre.table
    /\ \A rc \in DOMAIN wb.cells :
          ~BelowOrBeside(rc) => save(wb).cells[rc] = disk.cells[rc]

\* The second append in a row to a table with a data row, formatted cells
\* below it and a value right of the first appended row.
C18_Witness ==
    /\ AppendOkWithData
    /\ appends = 2
    /\ DOMAIN last.arg.items # {}
    /\ StyleOf(last.pre, <<Bounds(last.pre).max_row + 1, Bounds(last.pre).min_col>>) = 4
    /\ wb.cells[<<Bounds(last.pre).max_row, Bounds(last.pre).max_col + 1>>].value
         = Text("note")

(***************************************************************************)
(* export_activities_to_excel: rejected records                            *)
(***************************************************************************)
\* The metric a filter key stands for, read from the decoded file of path.
PathMetric(path, key) ==
    LET fit == ActivityFiles[path].fit
        session == fit["session_mesgs"].elems[1].items
    IN CASE key = "wrk_sport" /\ "sport" \in DOMAIN session -> session["sport"]
         [] key = "wrk_load" /\ "training_load_peak" \in DOMAIN session ->
               session["training_load_peak"]
         [] key = "wrk_name" /\ "workout_mesgs" \in DOMAIN fit ->
               fit["workout_mesgs"].elems[1].items["wkt_name"]
         [] OTHER -> None
\* start_time of the first session message of the decoded file of path.
PathMetricStart(path) ==
    ActivityFiles[path].fit["session_mesgs"].elems[1].items["start_time"]
\* The record of path passes the filter of the call.
PassesFilter(path) ==
    \A n \in DOMAIN call.filter_map :
        EntryPasses(call.filter_map[n], PathMetric(path, call.filter_map[n].key))
\* Number of records among the first k of the call that pass the filter.
PassedUpTo(k) ==
    Cardinality({j \in 1..k : PassesFilter(call.activity_paths[j])})
\* The Date cell of the persisted row n rows below the table as it was.
DateCell(n) ==
    disk.cells[<<Bounds(call.before).max_row + n, Bounds(call.before).min_col>>].value

\* C19: a rejected record is no error: _excel_exporter returns normally and
\* the loop goes on with the next path; records are processed in list order;
\* a batch that ended without error processed every path and saved the
\* document (also when every record was rejected), the persisted max_row is
\* the previous one plus the number of records that passed the filter, and
\* the k-th passing record, in the order of the paths, is the k-th new row.
C19_RejectionIsNoError ==
    /\ (last.op = "record" /\ last.end = "skipped") =>
          /\ exc = "none"
          /\ last.err = "ok"
          /\ pc \in {"loop", "finally", "done"}
          /\ pc = "loop" => idx = last.idx + 1
          /\ pc # "loop" => InLog("save")
    /\ \A k \in DOMAIN done : done[k].path = call.activity_paths[k]
    /\ (pc = "done" /\ exc = "none") =>
          /\ log = <<"load", "save", "close">>
          /\ Len(done) = Len(call.activity_paths)
          /\ disk = save(wb)
          /\ Bounds(disk).max_row
                = Bounds(call.before).max_row + PassedUpTo(Len(call.activity_paths))
          /\ \A k \in DOMAIN call.activity_paths :
                PassesFilter(call.activity_paths[k]) =>
                    DateCell(PassedUpTo(k)) =
                        ClockAtCET(PathMetricStart(call.activity_paths[k]))

\* A batch of the cycling and the running record, in this order, filtered on
\* sport = running: the first was rejected, the second appended, and the
\* document was saved with one more row.
C19_Witness ==
    /\ pc = "done"
    /\ exc = "none"
    /\ Len(done) = 2
    /\ done[1].end = "skipped"
    /\ done[2].end = "appended"
    /\ PassedUpTo(2) = 1
    /\ Bounds(disk).max_row = Bounds(call.before).max_row + 1
    /\ DateCell(1) = DateTime(20, 11, FALSE, 0)

(***************************************************************************)
(* append_table_values: header-only tables                                 *)
(***************************************************************************)
HeaderOnly == Bounds(last.pre).max_row = Bounds(last.pre).min_row

\* C20 (SpecAppend): propagation runs only when the table has a data row:
\* whenever the new row took a height, a style or a formula from the row
\* above it, max_row > min_row held; a successful append to a header-only
\* table leaves the height of the new row and the style of each of its cells
\* as they were, and each cell holds its Row Values value or stays empty.
C20_PropagationGating ==
    AppendOk =>
        /\ (\/ wb.heights[Bounds(last.pre).max_row + 1]
                  # last.pre.heights[Bounds(last.pre).max_row + 1]
            \/ \E c \in TableCols :
                  \/ wb.cells[DstCell(c)].style # last.pre.cells[DstCell(c)].style
                  \/ Continued(DstCell(c)))
              => ~HeaderOnly
        /\ HeaderOnly =>
              /\ wb.heights[Bounds(last.pre).max_row + 1]
                    = last.pre.heights[Bounds(last.pre).max_row + 1]
              /\ \A c \in TableCols :
                    /\ wb.cells[DstCell(c)].style = last.pre.cells[DstCell(c)].style
                    /\ StyleOf(wb, DstCell(c)) = StyleOf(last.pre, DstCell(c))
                    /\ wb.cells[DstCell(c)].value =
                          IF ColumnName(c) \in DOMAIN last.arg.items
                          THEN Converted(ColumnName(c))
                          ELSE None

\* A successful append to a header-only table whose header row has a height
\* and styled cells: the new row has neither.
C20_Witness ==
    /\ AppendOk
    /\ HeaderOnly
    /\ DOMAIN last.arg.items # {}
    /\ last.pre.heights[Bounds(last.pre).max_row] = 20
    /\ \A c \in TableCols : StyleOf(last.pre, SrcCell(c)) = 1
    /\ wb.heights[Bounds(last.pre).max_row + 1] = 0
    /\ \A c \in TableCols : StyleOf(wb, DstCell(c)) = 0

(***************************************************************************)
(* append_table_values: unknown column names                               *)
(***************************************************************************)
\* Keys of the argument of the call recorded in last that are not column
\* names of the table.
UnknownKeys ==
    DOMAIN last.arg.items
        \ {last.pre.table.tableColumns[n] : n \in DOMAIN last.pre.table.tableColumns}
\* Text x comes before text y in the order of their code points.
RECURSIVE Before(_, _)
Before(x, y) ==
    IF y = <<>> THEN FALSE
    ELSE IF x = <<>> THEN TRUE
    ELSE IF Head(x) = Head(y) THEN Before(Tail(x), Tail(y))
    ELSE Head(x) < Head(y)
\* Position in the message of the n-th name it lists.
NamePos(n) == 2 * n - 1

\* The message of the error recorded in last lists exactly the unknown keys,
\* each once, separated by ", ", in ascending order of their text.
ListsUnknownKeys ==
    /\ Len(last.bad) = 2 * Cardinality(UnknownKeys) - 1
    /\ {last.bad[NamePos(n)] : n \in 1..Cardinality(UnknownKeys)} = UnknownKeys
    /\ \A n \in 1..(Cardinality(UnknownKeys) - 1) :
          /\ last.bad[NamePos(n) + 1] = ", "
          /\ Before(CodePoints[last.bad[NamePos(n)]],
                    CodePoints[last.bad[NamePos(n + 1)]])

\* C21 as stated: on a table without totals row and with a dict argument
\* the call fails iff some key of row_values is not a column name, and the
\* error then lists exactly the unknown keys, each once, sorted.
C21_Original ==
    (/\ last.op = "append"
     /\ ~last.pre.table.totalsRowShown
     /\ last.arg.isdict) =>
        /\ last.err # "ok" <=> UnknownKeys # {}
        /\ UnknownKeys # {} =>
              /\ last.err = "ValueError: invalid column names"
              /\ ListsUnknownKeys

\* C21 (SpecAppend), amended: on a table without totals row and with a dict
\* argument the call raises the invalid-column-names ValueError iff some key
\* of row_values is not a column name of the table (with known keys only it
\* succeeds or fails at the empty-row check); the message of that one error
\* lists exactly the keys that are no column names, each once, separated by
\* ", ", in ascending order of their text, and nothing was written.
C21_UnknownColumns ==
    (/\ last.op = "append"
     /\ ~last.pre.table.totalsRowShown
     /\ last.arg.isdict) =>
        /\ last.err = "ValueError: invalid column names" <=> UnknownKeys # {}
        /\ UnknownKeys # {} => (wb = last.pre /\ ListsUnknownKeys)
        /\ UnknownKeys = {} =>
              /\ last.bad = <<>>
              /\ last.err = IF TargetRowOccupied THEN "ValueError: row is not empty"
                            ELSE "ok"

\* Four unknown keys next to a valid one, on an occupied target row: the
\* message lists them upper case first and "Zo" before "Zone".
C21_Witness ==
    /\ last.op = "append"
    /\ ~last.pre.table.totalsRowShown
    /\ last.arg.isdict
    /\ "Name" \in DOMAIN last.arg.items
    /\ TargetRowOccupied
    /\ last.err = "ValueError: invalid column names"
    /\ last.bad = <<"Bogus", ", ", "Zo", ", ", "Zone", ", ", "date">>

====
